---------------------------- MODULE Spec2Model ----------------------------
(***************************************************************************)
(* KnightsTour.py as a state machine.                                      *)
(*                                                                         *)
(* A KnightsTour object is built from (start, size); findTour runs the     *)
(* recursive _findPath, modelled with an explicit stack of frames, one     *)
(* frame per active call of _findPath.  A square is a pair <<x, y>>.       *)
(* Python values of _findPath are tagged records: None, or a list.         *)
(***************************************************************************)
EXTENDS Integers, Sequences, FiniteSets, TLC

VARIABLES
  size,         \* self.size
  start,        \* self.start
  graph,        \* self.graph: square -> list of squares
  defaultPath,  \* the list object bound to _findPath's default argument path=[]
  stack,        \* the active calls of _findPath, outermost first
  ret,          \* the value a call of _findPath has just returned to its caller
  results,      \* what the calls of findTour made so far have returned
  rendered,     \* what printPath did in __main__
  pc            \* "new", "idle", "searching" or "KeyError"

vars == <<size, start, graph, defaultPath, stack, ret, results, rendered, pc>>

----------------------------------------------------------------------------
(* Bounds of the model *)

\* Calls of findTour made on one object.
MaxRuns == 2

\* Board sizes on which every start square is searched.  A 5x5 search from a
\* square with x + y odd makes over a million calls of _findPath, so of the
\* 5x5 board only the other squares are start squares here.
FullSizes == 1 .. 4

----------------------------------------------------------------------------
(* Python values *)

None == [tag |-> "None", val |-> <<>>]

List(p) == [tag |-> "list", val |-> p]

\* No value is waiting to be received by a caller.
NoRet == [tag |-> "NoRet", val |-> <<>>]

\* Truthiness of a value of _findPath, as `if newpath:` tests it.
TruthyAlways(v) == TRUE

Truthy(v) == v.tag = "list" /\ Len(v.val) > 0

\* Membership in a list (`node not in path`).
InList(x, s) == \E i \in 1 .. Len(s) : s[i] = x

----------------------------------------------------------------------------
(* The board graph *)

DefaultSize == 8

DefaultStart == <<0, 0>>

valid(square, sz) ==
  (0 <= square[1] /\ square[1] < sz) /\ (0 <= square[2] /\ square[2] < sz)

movesSwapped(square, sz) ==
  LET x == square[1]
      y == square[2]
      left_twos  == << <<x - 2, y - 1>>, <<x - 2, y + 1>> >>
      right_twos == << <<x + 2, y - 1>>, <<x + 2, y + 1>> >>
      up_twos    == << <<x - 1, y - 2>>, <<x + 1, y - 2>> >>
      down_twos  == << <<x - 1, y + 2>>, <<x + 1, y + 2>> >>
      all_moves  == left_twos \o up_twos \o right_twos \o down_twos
      ok(move)   == valid(move, sz)
  IN  SelectSeq(all_moves, ok)

moves(square, sz) ==
  LET x == square[1]
      y == square[2]
      left_twos  == << <<x - 2, y - 1>>, <<x - 2, y + 1>> >>
      right_twos == << <<x + 2, y - 1>>, <<x + 2, y + 1>> >>
      up_twos    == << <<x - 1, y - 2>>, <<x + 1, y - 2>> >>
      down_twos  == << <<x - 1, y + 2>>, <<x + 1, y + 2>> >>
      all_moves  == left_twos \o right_twos \o up_twos \o down_twos
      ok(move)   == valid(move, sz)
  IN  SelectSeq(all_moves, ok)

\* range(sz) x range(sz); empty when sz <= 0.
Squares(sz) == (0 .. sz - 1) \X (0 .. sz - 1)

BuildGraph(sz) == [sq \in Squares(sz) |-> moves(sq, sz)]

----------------------------------------------------------------------------
(* _findPath *)

\* `path = path + [start]`: the new list bound to the local name, and the
\* list object that was handed in as it is afterwards.
ExtendInPlace(path, node) ==
  [local |-> Append(path, node), handed |-> Append(path, node)]

Extend(path, node) == [local |-> Append(path, node), handed |-> path]

CompleteOffByOne(path, sz) == Len(path) = sz * sz - 1

Complete(path, sz) == Len(path) = sz * sz

NotInPathAlways(node, path) == TRUE

\* `node not in path`
NotInPath(node, path) == ~InList(node, path)

\* nodes = [node for node in self.graph[start] if node not in path]
Unvisited(g, node, path) ==
  LET fresh(n) == NotInPath(n, path) IN SelectSeq(g[node], fresh)

\* sorted(nodes, key=...): the builtin's result, the elements of nodes in
\* ascending order of key, elements of equal key in their order in nodes.
\* The element at index i goes behind the ahead(i) elements that have a
\* smaller key or have the same key and an earlier index.
sorted(nodes, key) ==
  LET n == Len(nodes)
      ahead(i) ==
        Cardinality({j \in 1 .. n :
                       \/ key[nodes[j]] < key[nodes[i]]
                       \/ key[nodes[j]] = key[nodes[i]] /\ j < i})
  IN  [p \in 1 .. n |-> nodes[CHOOSE i \in 1 .. n : ahead(i) = p - 1]]

CandidatesDynamic(g, node, path) ==
  sorted(Unvisited(g, node, path),
         [x \in DOMAIN g |-> Len(Unvisited(g, x, path))])

\* The list the for loop iterates over.
Candidates(g, node, path) ==
  sorted(Unvisited(g, node, path), [x \in DOMAIN g |-> Len(g[x])])

NextIndexStuck(k) == k

\* The for loop takes the next element of its list.
NextIndex(k) == k + 1

GiveUpPartial(path) == List(path)

\* `return None` after the loop.
GiveUp(path) == None

\* The frame of a call _findPath(node, handed), after `path = path + [start]`
\* bound local; the loop's list is built only when the path is not complete.
\* order is the list the for loop iterates over, k how many of its elements
\* the loop has taken.
NewFrame(node, local) ==
  [start |-> node,
   path  |-> local,
   order |-> IF Complete(local, size) THEN <<>> ELSE Candidates(graph, node, local),
   k     |-> 0]

Top == stack[Len(stack)]

Pop == SubSeq(stack, 1, Len(stack) - 1)

\* The top call returns v: to its caller's frame, or out of findTour.
Deliver(v) ==
  /\ stack' = Pop
  /\ IF Len(stack) = 1
     THEN /\ results' = Append(results, v)
          /\ ret' = NoRet
          /\ pc' = "idle"
     ELSE /\ ret' = v
          /\ UNCHANGED <<results, pc>>

----------------------------------------------------------------------------
(* Inputs *)

ValidInput(st, sz) == sz >= 1 /\ valid(st, sz)

FullBoards ==
  UNION {{[size |-> n, start |-> s] : s \in Squares(n)} : n \in FullSizes}

EvenBoards5 ==
  {[size |-> 5, start |-> s] : s \in {t \in Squares(5) : (t[1] + t[2]) % 2 = 0}}

DefaultBoard == [size |-> DefaultSize, start |-> DefaultStart]

InvalidInputs ==
  {[size |-> 0, start |-> <<0, 0>>],
   [size |-> -1, start |-> <<0, 0>>],
   [size |-> 1, start |-> <<1, 1>>],
   [size |-> 3, start |-> <<3, 0>>],
   [size |-> 3, start |-> <<0, -1>>]}

Inputs == FullBoards \cup EvenBoards5 \cup {DefaultBoard} \cup InvalidInputs

----------------------------------------------------------------------------
(* Operations *)

Init ==
  /\ \E b \in Inputs : size = b.size /\ start = b.start
  /\ graph = <<>>
  /\ defaultPath = <<>>
  /\ stack = <<>>
  /\ ret = NoRet
  /\ results = <<>>
  /\ rendered = "no"
  /\ pc = "new"

\* KnightsTour(start, size)
Construct ==
  /\ pc = "new"
  /\ graph' = BuildGraph(size)
  /\ pc' = "idle"
  /\ UNCHANGED <<size, start, defaultPath, stack, ret, results, rendered>>

\* findTour(): the call _findPath(self.start) gets as far as its loop or its
\* first return.
FindTour ==
  /\ pc = "idle"
  /\ Len(results) < MaxRuns
  /\ LET e == Extend(defaultPath, start) IN
       /\ Complete(e.local, size) \/ start \in DOMAIN graph
       /\ stack' = <<NewFrame(start, e.local)>>
       /\ defaultPath' = e.handed
  /\ pc' = "searching"
  /\ UNCHANGED <<size, start, graph, ret, results, rendered>>

\* findTour(): self.graph[start] raises KeyError.
FindTourKeyError ==
  /\ pc = "idle"
  /\ Len(results) < MaxRuns
  /\ LET e == Extend(defaultPath, start) IN
       /\ ~Complete(e.local, size)
       /\ start \notin DOMAIN graph
       /\ defaultPath' = e.handed
  /\ pc' = "KeyError"
  /\ UNCHANGED <<size, start, graph, stack, ret, results, rendered>>

\* One iteration of the loop: it takes its next node and, the node not being
\* in path, calls _findPath(node, path).
Descend ==
  /\ pc = "searching"
  /\ ret = NoRet
  /\ ~Complete(Top.path, size)
  /\ Top.k < Len(Top.order)
  /\ LET node == Top.order[Top.k + 1]
         e    == Extend(Top.path, node)
     IN  stack' =
           IF NotInPath(node, Top.path)
           THEN Append([stack EXCEPT ![Len(stack)] =
                          [@ EXCEPT !.k = NextIndex(@), !.path = e.handed]],
                       NewFrame(node, e.local))
           ELSE [stack EXCEPT ![Len(stack)] = [@ EXCEPT !.k = NextIndex(@)]]
  /\ UNCHANGED <<size, start, graph, defaultPath, ret, results, rendered, pc>>

\* `return path`: the path list contains size**2 squares.
ReturnPath ==
  /\ pc = "searching"
  /\ ret = NoRet
  /\ Complete(Top.path, size)
  /\ Deliver(List(Top.path))
  /\ UNCHANGED <<size, start, graph, defaultPath, rendered>>

\* `return None`: the loop is over.
ReturnNone ==
  /\ pc = "searching"
  /\ ret = NoRet
  /\ ~Complete(Top.path, size)
  /\ Top.k >= Len(Top.order)
  /\ Deliver(GiveUp(Top.path))
  /\ UNCHANGED <<size, start, graph, defaultPath, rendered>>

\* `if newpath: return newpath`
Propagate ==
  /\ pc = "searching"
  /\ ret # NoRet
  /\ Truthy(ret)
  /\ Deliver(ret)
  /\ UNCHANGED <<size, start, graph, defaultPath, rendered>>

\* `if newpath:` is false: on to the next node of the loop.
Continue ==
  /\ pc = "searching"
  /\ ret # NoRet
  /\ ~Truthy(ret)
  /\ ret' = NoRet
  /\ UNCHANGED <<size, start, graph, defaultPath, stack, results, rendered, pc>>

\* What printPath(path) does: the grid, or the exception it raises.
printPath(path, sz) ==
  IF path.tag # "list" THEN "TypeError"
  ELSE IF \A sq \in Squares(sz) : InList(sq, path.val) THEN "grid"
  ELSE "KeyError"

\* __main__: kt = KnightsTour(); tour = kt.findTour(); kt.printPath(tour)
PrintPath ==
  /\ size = DefaultSize /\ start = DefaultStart
  /\ pc = "idle"
  /\ Len(results) >= 1
  /\ rendered = "no"
  /\ rendered' = printPath(results[1], size)
  /\ UNCHANGED <<size, start, graph, defaultPath, stack, ret, results, pc>>

Search == Descend \/ ReturnPath \/ ReturnNone \/ Propagate \/ Continue

Next ==
  \/ Construct
  \/ FindTour
  \/ FindTourKeyError
  \/ Descend
  \/ ReturnPath
  \/ ReturnNone
  \/ Propagate
  \/ Continue
  \/ PrintPath

Spec == Init /\ [][Next]_vars

\* A call of findTour that has begun keeps running: nothing suspends it.
FairSpec == Init /\ [][Next]_vars /\ WF_vars(Search)

----------------------------------------------------------------------------
(* Vocabulary of the properties *)

Range(s) == {s[i] : i \in 1 .. Len(s)}

Distinct(s) == Cardinality({s[i] : i \in 1 .. Len(s)}) = Len(s)

\* The position of x in a list that holds it.
PosIn(s, x) == CHOOSE i \in 1 .. Len(s) : s[i] = x

Abs(n) == IF n < 0 THEN -n ELSE n

\* One knight move leads from a to b.
KnightMove(a, b) ==
  {Abs(a[1] - b[1]), Abs(a[2] - b[2])} = {1, 2}

OnBoard(sq) == sq[1] \in 0 .. size - 1 /\ sq[2] \in 0 .. size - 1

Valid == ValidInput(start, size)

IsDefault == size = DefaultSize /\ start = DefaultStart

\* p is a path of the graph: each square is followed by one of its entries.
GraphPath(p) == \A i \in 1 .. Len(p) - 1 : InList(p[i + 1], graph[p[i]])

CompleteTour(p) ==
  /\ Len(p) = size * size
  /\ p[1] = start
  /\ Distinct(p)
  /\ GraphPath(p)

----------------------------------------------------------------------------
(* C1 *)

\* C1: on a valid board, whatever findTour returns other than None is a
\* complete tour: a list that begins at start, has size*size squares, all
\* distinct, each followed by a square of its adjacency list.  A partial path
\* is never returned.
C1_ResultIsCompleteTour ==
  Valid => \A i \in DOMAIN results :
             results[i] # None =>
               results[i].tag = "list" /\ CompleteTour(results[i].val)

C1_Witness ==
  /\ Valid /\ size = 5 /\ start = <<1, 1>>
  /\ results # <<>> /\ results[1].tag = "list"

----------------------------------------------------------------------------
(* C2 *)

\* C2: for an input with size < 1 or a start coordinate outside [0, size), a
\* configuration error is reported at construction, before any search step:
\* the object is never built, no search begins and no path is returned.
C2_InvalidInputRejectedAtConstruction ==
  ~Valid => /\ pc \in {"new", "ConfigurationError"}
            /\ stack = <<>>
            /\ results = <<>>

----------------------------------------------------------------------------
(* C3 *)

\* C3: on a board of size 3 or 4, from every start square, findTour
\* terminates, and what it returns is None.
C3_NoTourOnSize3And4 ==
  /\ []((Valid /\ size \in {3, 4}) =>
          \A i \in DOMAIN results : results[i] = None)
  /\ ((Valid /\ size \in {3, 4} /\ pc = "searching")
        ~> (pc = "idle" /\ results # <<>> /\ results[Len(results)] = None))

C3_Witness ==
  /\ Valid /\ size = 4 /\ start = <<1, 2>>
  /\ pc = "idle" /\ results = <<None>>

----------------------------------------------------------------------------
(* C4 *)

\* C4: with the default configuration (size 8, start (0,0)) findTour returns
\* a complete tour of the 64 squares, so __main__ never hands None to
\* printPath.
C4_DefaultBoardHasTour ==
  (IsDefault /\ results # <<>>) =>
     /\ results[1].tag = "list"
     /\ CompleteTour(results[1].val)
     /\ Len(results[1].val) = 64
     /\ Range(results[1].val) = Squares(size)
     /\ rendered \in {"no", "grid"}

C4_Witness == IsDefault /\ rendered = "grid"

----------------------------------------------------------------------------
(* C5 *)

\* The eight knight offsets from sq, in the order the claim lists them.
Canonical(sq) ==
  LET r == sq[1]
      c == sq[2]
  IN  << <<r - 2, c - 1>>, <<r - 2, c + 1>>, <<r + 2, c - 1>>, <<r + 2, c + 1>>,
         <<r - 1, c - 2>>, <<r + 1, c - 2>>, <<r - 1, c + 2>>, <<r + 1, c + 2>> >>

\* m is the list c with exactly its off-board entries removed in place.
FilteredInPlace(m, c) ==
  /\ \A i \in 1 .. Len(c) : OnBoard(c[i]) <=> InList(c[i], m)
  /\ \A i \in 1 .. Len(m) : InList(m[i], c)
  /\ \A i, j \in 1 .. Len(m) : i < j => PosIn(c, m[i]) < PosIn(c, m[j])

\* C5: for size >= 1 and every square s of the board, moves(s) and graph[s]
\* are the eight canonical offsets in their fixed order with exactly the
\* off-board ones removed in place: only on-board squares one knight move
\* from s, no duplicates, never s itself.
C5_MovesAreFilteredCanonicalOffsets ==
  (pc = "idle" /\ size >= 1) =>
     /\ DOMAIN graph = Squares(size)
     /\ \A s \in Squares(size) :
          /\ graph[s] = moves(s, size)
          /\ FilteredInPlace(graph[s], Canonical(s))
          /\ \A i \in 1 .. Len(graph[s]) :
               OnBoard(graph[s][i]) /\ KnightMove(s, graph[s][i])
          /\ Distinct(graph[s])
          /\ ~InList(s, graph[s])

C5_Witness ==
  /\ pc = "idle" /\ size = 4
  /\ graph[<<1, 2>>] = << <<3, 1>>, <<3, 3>>, <<0, 0>>, <<2, 0>> >>

----------------------------------------------------------------------------
(* C6 *)

\* C6: calls of findTour on one configuration return the same value; no call
\* of _findPath changes the graph or the list it was handed: the default
\* argument list stays empty and every caller's path stays as it was.
C6_FindTourIsRepeatable ==
  /\ \A i, j \in DOMAIN results : results[i] = results[j]
  /\ defaultPath = <<>>
  /\ pc # "new" => graph = BuildGraph(size)
  /\ \A i \in 1 .. Len(stack) :
       stack[i].path =
         Append(IF i = 1 THEN <<>> ELSE stack[i - 1].path, stack[i].start)

C6_Witness ==
  /\ Len(results) = 2
  /\ results[1].tag = "list" /\ size = 5
  /\ results[2] = results[1]

----------------------------------------------------------------------------
(* C7 *)

\* C7: during a search on a valid board the path of every active frame is a
\* simple path of the knight graph that begins at the board's start square:
\* on-board squares, none twice, consecutive ones adjacent in graph; so its
\* length and the recursion depth never exceed size*size.
C7_ActivePathsAreSimple ==
  Valid =>
    /\ Len(stack) <= size * size
    /\ \A i \in 1 .. Len(stack) :
         LET p == stack[i].path IN
           /\ Len(p) = i
           /\ Len(p) <= size * size
           /\ p[1] = start
           /\ p[Len(p)] = stack[i].start
           /\ \A j \in 1 .. Len(p) : OnBoard(p[j])
           /\ Distinct(p)
           /\ GraphPath(p)
           /\ \A j \in 1 .. Len(p) - 1 : KnightMove(p[j], p[j + 1])

C7_Witness ==
  /\ Valid /\ size = 4
  /\ Len(stack) = 15
  /\ Len(Top.path) = 15

----------------------------------------------------------------------------
(* C8 *)

Deg(n) == Len(graph[n])

\* a is attempted before b from cur: smaller static degree first, equal
\* degrees in the order of graph[cur].
Before(cur, a, b) ==
  \/ Deg(a) < Deg(b)
  \/ Deg(a) = Deg(b) /\ PosIn(graph[cur], a) < PosIn(graph[cur], b)

\* The list frame f iterates over holds its unvisited neighbours, each once,
\* in the order Before.
IteratesInOrder(f) ==
  LET U == {n \in Range(graph[f.start]) : ~InList(n, f.path)}
      o == f.order
  IN  /\ Range(o) = U
      /\ Len(o) = Cardinality(U)
      /\ \A i, j \in 1 .. Len(o) : i < j => Before(f.start, o[i], o[j])

\* C8: a call that does not return at once attempts its unvisited neighbours
\* in ascending order of static degree len(graph[node]), equal degrees in the
\* order of graph[current]: each attempt is a call on the next node of that
\* order, none skipped and none repeated; and once an attempt has returned a
\* path the frame returns without another attempt.
C8_WarnsdorffOrderAndShortCircuit ==
  /\ [](Valid =>
          /\ \A i \in 1 .. Len(stack) :
               ~Complete(stack[i].path, size) => IteratesInOrder(stack[i])
          /\ \A i \in 1 .. Len(stack) - 1 :
               /\ stack[i].k \in 1 .. Len(stack[i].order)
               /\ stack[i + 1].start = stack[i].order[stack[i].k])
  /\ [][(Valid /\ Len(stack') = Len(stack) + 1 /\ stack # <<>>) =>
          /\ stack'[Len(stack)].k = Top.k + 1
          /\ stack'[Len(stack')].start = Top.order[Top.k + 1]]_vars
  /\ [][(Valid /\ ret.tag = "list") =>
          /\ stack' = SubSeq(stack, 1, Len(stack) - 1)
          /\ ret' = ret \/ results' = Append(results, ret)]_vars

\* A frame on its third attempt, the first two of equal static degree but of
\* unequal count of unvisited neighbours, the larger count first.
C8_Witness ==
  /\ Valid /\ stack # <<>>
  /\ \E i \in 1 .. Len(stack) - 1 :
       LET f == stack[i] IN
         /\ f.k = 3
         /\ Deg(f.order[1]) = Deg(f.order[2])
         /\ Len(Unvisited(graph, f.order[1], f.path))
              > Len(Unvisited(graph, f.order[2], f.path))

----------------------------------------------------------------------------
(* C9 *)

\* C9: on a valid board a call of findTour eventually returns, a path or
\* None.
C9_FindTourTerminates ==
  (Valid /\ pc = "searching") ~> (pc = "idle" /\ results # <<>>)

C9_Witness ==
  /\ Valid /\ size = 4 /\ start = <<0, 0>>
  /\ pc = "idle" /\ Len(results) = 2

----------------------------------------------------------------------------
(* C10 *)

KnightNeighbours(sq) == {n \in Squares(size) : KnightMove(sq, n)}

RECURSIVE ExistsTourFrom(_, _)
\* Some simple path of knight moves from cur covers the squares not yet
\* visited.
ExistsTourFrom(cur, visited) ==
  IF visited = Squares(size)
  THEN TRUE
  ELSE \E n \in KnightNeighbours(cur) \ visited :
         ExistsTourFrom(n, visited \cup {n})

\* p is a Hamiltonian path of the knight graph that begins at start.
HamiltonianFromStart(p) ==
  /\ Len(p) = size * size
  /\ p[1] = start
  /\ Range(p) = Squares(size)
  /\ \A i \in 1 .. Len(p) - 1 : KnightMove(p[i], p[i + 1])

\* The knight graph has a Hamiltonian path from start: v is one, or the
\* search over all simple paths finds one.
HasTour(v) ==
  \/ v.tag = "list" /\ HamiltonianFromStart(v.val)
  \/ ExistsTourFrom(start, {start})

\* C10: on a valid board findTour returns None exactly when the knight graph
\* has no Hamiltonian path that begins at start.
C10_SearchIsComplete ==
  (Valid /\ pc = "idle") =>
     \A i \in DOMAIN results : results[i] = None <=> ~HasTour(results[i])

C10_Witness ==
  /\ Valid /\ size = 4 /\ start = <<3, 3>>
  /\ pc = "idle" /\ Len(results) = 1
  /\ results[1] = None
  /\ ~ExistsTourFrom(start, {start})

=============================================================================
